---- MODULE Spec2Model ----
(***************************************************************************)
(* Model of Mathematics/diophantine.py: one call of                        *)
(* solve_linear_diophantine_nonnegative(coeffs, constant, var_names,       *)
(* bound_limit, verbose), followed step by step: validation, default       *)
(* names, deduplication of coefficients, the parametric solution returned  *)
(* by sympy's diophantine() for a linear equation, the bounded search of   *)
(* the parameter hypercube, and the final sort.                            *)
(*                                                                         *)
(* A symbolic expression of the parametric solution is linear in the       *)
(* parameters t_0, t_1, ...; it is represented by the sequence of its      *)
(* integer coefficients: e[1] is the additive constant and e[j + 2] the    *)
(* coefficient of t_j.                                                     *)
(***************************************************************************)
EXTENDS Integers, Sequences, FiniteSets, TLC

VARIABLES coeffs, constant, var_names, bound_limit, verbose,
          pc, i, seen, simplified_coeffs, simplified_vars,
          sol_set, pending, valid_solutions, tried, output, result

vars == <<coeffs, constant, var_names, bound_limit, verbose,
          pc, i, seen, simplified_coeffs, simplified_vars,
          sol_set, pending, valid_solutions, tried, output, result>>

(***************************************************************************)
(* Bounds of the model and the inputs a call is given.                     *)
(***************************************************************************)
MaxLen == 3            \* longest coefficient list
MaxConst == 3          \* constants range over -1 .. MaxConst
MaxCube == 400         \* largest parameter hypercube (in points) a modelled call searches
SmallBoundLimit == 1   \* a caller-chosen bound_limit below the default
DefaultBoundLimit == 100

\* Python's None (an absent var_names, a result not yet returned). Name lists
\* and results of the model are never empty sequences themselves.
None == <<>>

CoeffValues == {-2, 0, 1, 2, 4}
ConstValues == -1 .. MaxConst
BoundLimits == {DefaultBoundLimit, SmallBoundLimit}

\* Caller-supplied names: distinct, as many as there are coefficients, in
\* alphabetical order or in reverse alphabetical order.
Alphabet == <<"a", "b", "c", "d", "e">>
AscNames(n) == [k \in 1 .. n |-> Alphabet[k]]
DescNames(n) == [k \in 1 .. n |-> Alphabet[n + 1 - k]]
NameChoices(n) == {None, AscNames(n), DescNames(n)}

CoeffLists == UNION {[1 .. n -> CoeffValues] : n \in 1 .. MaxLen}

\* Equations (coefficients, constant) of the documented scenarios, and two
\* whose search is cut short by the default bound_limit.
ExampleEquations ==
  {<< <<5, 5>>, 10 >>, << <<2, 4>>, 7 >>, << <<1, 1>>, 0 >>,
   << <<3, 3, 5>>, 8 >>, << <<1, 2>>, 202 >>, << <<2, 3>>, 300 >>}

Equations == (CoeffLists \X ConstValues) \cup ExampleEquations

(***************************************************************************)
(* Integer helpers.                                                        *)
(***************************************************************************)
Abs(x) == IF x < 0 THEN -x ELSE x
Sign(x) == IF x < 0 THEN -1 ELSE IF x > 0 THEN 1 ELSE 0

RECURSIVE igcd(_, _)
igcd(a, b) == IF b = 0 THEN Abs(a) ELSE igcd(b, a % Abs(b))

Range(s) == {s[k] : k \in DOMAIN s}

RECURSIVE SeqMin(_)
SeqMin(s) ==
  IF Len(s) = 1 THEN s[1]
  ELSE LET m == SeqMin(Tail(s)) IN IF s[1] < m THEN s[1] ELSE m

RECURSIVE Dot(_, _)
Dot(a, t) == IF a = <<>> \/ t = <<>> THEN 0
             ELSE a[1] * t[1] + Dot(Tail(a), Tail(t))

RECURSIVE Power(_, _)
Power(b, e) == IF e = 0 THEN 1 ELSE b * Power(b, e - 1)

(***************************************************************************)
(* sympy.diophantine on a linear equation (called at diophantine.py:65).   *)
(* The operators below follow sympy's linear solver: igcdex,               *)
(* base_solution_linear, and the chain of bivariate equations that         *)
(* Linear.solve sets up for more than two variables.                       *)
(***************************************************************************)
RECURSIVE igcdexLoop(_, _, _, _, _, _)
igcdexLoop(a, b, r, s, x, y) ==
  IF b = 0 THEN <<x, y, a>>
  ELSE LET q == a \div b
       IN igcdexLoop(b, a % b, x - q * r, y - q * s, r, s)

\* x, y, g with g = x*a + y*b = gcd(a, b)
igcdex(a, b) ==
  IF a = 0 /\ b = 0 THEN <<0, 1, 0>>
  ELSE IF a = 0 THEN <<0, Sign(b), Abs(b)>>
  ELSE IF b = 0 THEN <<Sign(a), 0, Abs(a)>>
  ELSE LET t == igcdexLoop(Abs(a), Abs(b), 0, 1, 1, 0)
       IN <<t[1] * Sign(a), t[2] * Sign(b), t[3]>>

\* exact quotient of n by d, d # 0 dividing n
ExactDiv(n, d) == Sign(d) * (n \div Abs(d))

remove_gcd(a, b, c) ==
  LET g == igcd(a, igcd(b, c))
  IN IF g = 1 THEN <<a, b, c>> ELSE <<a \div g, b \div g, c \div g>>

\* base_solution_linear without the test that gcd(a, b) divides c
base_solution_unchecked(c, a, b) ==
  LET abc == remove_gcd(a, b, c)
      a1 == abc[1]
      b1 == abc[2]
      c1 == abc[3]
      ts == IF b1 < 0 THEN -1 ELSE 1
      e == igcdex(Abs(a1), Abs(b1))
  IN [ok |-> TRUE, xc |-> c1 * e[1] * Sign(a1), xt |-> b1 * ts,
      yc |-> c1 * e[2] * Sign(b1), yt |-> -a1 * ts]

\* The solution of a*x + b*y = c with parameter t, as
\* x = xc + xt*t, y = yc + yt*t; ok is FALSE when there is none.
base_solution_linear(c, a, b) ==
  LET abc == remove_gcd(a, b, c)
      a1 == abc[1]
      b1 == abc[2]
      c1 == abc[3]
      ts == IF b1 < 0 THEN -1 ELSE 1
      e == igcdex(Abs(a1), Abs(b1))
      x0 == e[1] * Sign(a1)
      y0 == e[2] * Sign(b1)
  IN IF c1 = 0
       THEN [ok |-> TRUE, xc |-> 0, xt |-> b1 * ts, yc |-> 0, yt |-> -a1 * ts]
     ELSE IF c1 % e[3] # 0
       THEN [ok |-> FALSE, xc |-> 0, xt |-> 0, yc |-> 0, yt |-> 0]
     ELSE [ok |-> TRUE, xc |-> c1 * x0, xt |-> b1 * ts,
           yc |-> c1 * y0, yt |-> -a1 * ts]

\* The arrays A and B of the bivariate equations A[s]*x + B[s]*y = c.
InitAB(A) ==
  LET n == Len(A)
  IN IF n > 2
       THEN LET g == igcd(A[n - 1], A[n])
            IN [A |-> [A EXCEPT ![n - 1] = A[n - 1] \div g, ![n] = A[n] \div g],
                B |-> <<g>>]
     ELSE [A |-> A, B |-> <<>>]

\* k is the 0-based index of the source's loop, from len(A) - 3 down to 1
RECURSIVE LoopAB(_, _)
LoopAB(ab, k) ==
  IF k < 1 THEN ab
  ELSE LET g == igcd(ab.B[1], ab.A[k + 1])
       IN LoopAB([A |-> [ab.A EXCEPT ![k + 1] = ab.A[k + 1] \div g],
                  B |-> <<g>> \o [ab.B EXCEPT ![1] = ab.B[1] \div g]],
                 k - 1)

ArraysAB(A) ==
  LET ab == LoopAB(InitAB(A), Len(A) - 3)
  IN [A |-> ab.A, B |-> Append(ab.B, ab.A[Len(A)])]

ZeroExpr(n) == [q \in 1 .. n |-> 0]

\* One bivariate equation a*x + b*y = c, c an expression: each term of c
\* (the constant at position 1, or k*t_j at position j + 2) is solved on
\* its own with the next parameter, and the partial solutions are added.
Stage(c, a, b) ==
  LET n == Len(c)
      terms == IF \A q \in 1 .. n : c[q] = 0 THEN {1}
               ELSE {q \in 1 .. n : c[q] # 0}
      sol(q) == base_solution_linear(c[q], a, b)
  IN [ok |-> (1 \in terms => sol(1).ok),
      x |-> [pos \in 1 .. n |->
               (IF pos \in terms THEN sol(pos).xc ELSE 0)
               + (IF pos > 1 /\ (pos - 1) \in terms THEN sol(pos - 1).xt ELSE 0)],
      y |-> [pos \in 1 .. n |->
               (IF pos \in terms THEN sol(pos).yc ELSE 0)
               + (IF pos > 1 /\ (pos - 1) \in terms THEN sol(pos - 1).yt ELSE 0)]]

\* The chain of stages; <<>> stands for "no solution".
RECURSIVE Stages(_, _, _, _, _)
Stages(A, B, c, s, acc) ==
  IF s > Len(B) THEN Append(acc, c)
  ELSE LET st == Stage(c, A[s], B[s])
       IN IF ~st.ok THEN <<>>
          ELSE Stages(A, B, st.y, s + 1, Append(acc, st.x))

\* Linear.solve for the equation sum A[k]*x_k = c
linear_solve(A, c) ==
  LET n == Len(A)
  IN IF n = 1
       THEN IF c % Abs(A[1]) = 0 THEN {<< <<ExactDiv(c, A[1])>> >>} ELSE {}
     ELSE LET ab == ArraysAB(A)
              s == Stages(ab.A, ab.B, [ZeroExpr(n) EXCEPT ![1] = c], 1, <<>>)
          IN IF s = <<>> THEN {} ELSE {s}

RECURSIVE SeqGcd(_)
SeqGcd(s) == IF s = <<>> THEN 0 ELSE igcd(s[1], SeqGcd(Tail(s)))

\* diophantine(eq) for sum A[k]*x_k - c = 0, the variables in sorted order:
\* the common factor of the equation is removed before it is solved. (The
\* solution does not depend on the sign the equation is normalised to:
\* base_solution_linear gives the same x for (c, a, b) and (-c, -a, -b).)
diophantine(A, c) ==
  LET g == igcd(SeqGcd(A), c)
  IN linear_solve([k \in 1 .. Len(A) |-> ExactDiv(A[k], g)], ExactDiv(c, g))

(***************************************************************************)
(* The symbols of the equation and the order sympy returns a solution in:  *)
(* diophantine() orders the solution tuple by the sorted variable names,   *)
(* whatever the order of the names in the equation.                        *)
(***************************************************************************)
DefaultName(k) == "x" \o ToString(k)

\* Alphabetical order of the names the model uses (x1 .. x9 sort by digit).
SortedNames == Alphabet \o [k \in 1 .. 9 |-> DefaultName(k)]
NameRank(s) == CHOOSE r \in 1 .. Len(SortedNames) : SortedNames[r] = s

\* perm[k] is the position, among names, of the k-th name in sorted order
SortPerm(names) ==
  LET n == Len(names)
  IN [k \in 1 .. n |->
        CHOOSE j \in 1 .. n :
          Cardinality({m \in 1 .. n : NameRank(names[m]) < NameRank(names[j])}) = k - 1]

\* lhs = sum(coeff * var), eq = Eq(lhs, constant), sol_set = diophantine(eq)
SolveEquation(cs, names, c) ==
  LET perm == SortPerm(names)
  IN diophantine([k \in 1 .. Len(cs) |-> cs[perm[k]]], c)

(***************************************************************************)
(* The enumeration of one parametric solution.                             *)
(***************************************************************************)
\* positions of the parameters that occur in some expression of sol
all_params(sol) ==
  {q \in 2 .. Len(sol) : \E k \in 1 .. Len(sol) : sol[k][q] # 0}

RECURSIVE EvalFrom(_, _, _)
EvalFrom(expr, v, q) ==
  IF q > Len(expr) THEN 0
  ELSE (IF q \in DOMAIN v THEN expr[q] * v[q] ELSE 0) + EvalFrom(expr, v, q + 1)

\* expr.subs(subs): the value of expr at the parameter values v
Subs(expr, v) == expr[1] + EvalFrom(expr, v, 2)

min_coeff(cs) == SeqMin([k \in 1 .. Len(cs) |-> Abs(cs[k])])

\* the bound without the cap of bound_limit
param_bound_uncapped(limit, c, cs) == (c * c) \div min_coeff(cs)

param_bound(limit, c, cs) ==
  LET b == (c * c) \div min_coeff(cs)
  IN IF limit < b THEN limit ELSE b

\* product(range(-param_bound, param_bound + 1), repeat=len(all_params))
ParamVectors(sol, pb) == [all_params(sol) -> (-pb) .. pb]

\* a test of the first component only
AcceptedFirstOnly(tuple) == tuple[1] >= 0

Accepted(tuple) == \A k \in 1 .. Len(tuple) : tuple[k] >= 0

\* an enumeration that drops the solutions without a free parameter
ContributionNoFixed(sol, limit, c, cs) ==
  IF all_params(sol) = {} THEN {}
  ELSE LET pb == param_bound(limit, c, cs)
           ev(v) == [k \in 1 .. Len(sol) |-> Subs(sol[k], v)]
       IN {ev(v) : v \in {w \in ParamVectors(sol, pb) : Accepted(ev(w))}}

\* the tuples one parametric solution adds to valid_solutions
Contribution(sol, limit, c, cs) ==
  IF all_params(sol) = {}
    THEN LET t == [k \in 1 .. Len(sol) |-> sol[k][1]]
         IN IF Accepted(t) THEN {t} ELSE {}
  ELSE LET pb == param_bound(limit, c, cs)
           ev(v) == [k \in 1 .. Len(sol) |-> Subs(sol[k], v)]
       IN {ev(v) : v \in {w \in ParamVectors(sol, pb) : Accepted(ev(w))}}

(***************************************************************************)
(* sorted(valid_solutions): tuples in ascending lexicographic order.       *)
(***************************************************************************)
RECURSIVE LexLess(_, _)
LexLess(s, t) ==
  IF s = <<>> THEN t # <<>>
  ELSE IF t = <<>> THEN FALSE
  ELSE IF s[1] # t[1] THEN s[1] < t[1]
  ELSE LexLess(Tail(s), Tail(t))

\* a sort in descending order
RECURSIVE sortedDescending(_)
sortedDescending(S) ==
  IF S = {} THEN <<>>
  ELSE LET m == CHOOSE x \in S : \A y \in S \ {x} : LexLess(y, x)
       IN <<m>> \o sortedDescending(S \ {m})

RECURSIVE sorted(_)
sorted(S) ==
  IF S = {} THEN <<>>
  ELSE LET m == CHOOSE x \in S : \A y \in S \ {x} : LexLess(x, y)
       IN <<m>> \o sorted(S \ {m})

(***************************************************************************)
(* The call, step by step.                                                 *)
(***************************************************************************)
CubeSize(cs, c, limit) ==
  LET d == Cardinality(Range(cs))
      pb == param_bound(limit, c, cs)
  IN IF d <= 1 \/ pb < 0 THEN 1 ELSE Power(2 * pb + 1, d - 1)

Init ==
  /\ \E eq \in Equations : coeffs = eq[1] /\ constant = eq[2]
  /\ var_names \in NameChoices(Len(coeffs))
  /\ bound_limit \in BoundLimits
  /\ verbose \in BOOLEAN
  /\ (\A k \in 1 .. Len(coeffs) : coeffs[k] # 0)
        => CubeSize(coeffs, constant, bound_limit) <= MaxCube
  /\ pc = "validate"
  /\ i = 0
  /\ seen = {}
  /\ simplified_coeffs = <<>>
  /\ simplified_vars = <<>>
  /\ sol_set = {}
  /\ pending = {}
  /\ valid_solutions = {}
  /\ tried = {}
  /\ output = <<>>
  /\ result = None

\* a validation of the first coefficient only
FirstCoefficientZero(cs) == cs[1] = 0

\* for coeff in coeffs: assert coeff != 0
ZeroCoefficient(cs) == \E k \in 1 .. Len(cs) : cs[k] = 0

Validate ==
  /\ pc = "validate"
  /\ pc' = IF ZeroCoefficient(coeffs) THEN "failed" ELSE "names"
  /\ UNCHANGED <<coeffs, constant, var_names, bound_limit, verbose, i, seen,
                 simplified_coeffs, simplified_vars, sol_set, pending,
                 valid_solutions, tried, output, result>>

\* default names numbered from 2
ResolvedNamesShifted(names, n) ==
  IF names = None THEN [k \in 1 .. n |-> DefaultName(k + 1)] ELSE names

\* if var_names is None: var_names = [f'x{i+1}' for i in range(n)]
ResolvedNames(names, n) ==
  IF names = None THEN [k \in 1 .. n |-> DefaultName(k)] ELSE names

ResolveNames ==
  /\ pc = "names"
  /\ var_names' = ResolvedNames(var_names, Len(coeffs))
  /\ pc' = "dedup"
  /\ i' = 1
  /\ UNCHANGED <<coeffs, constant, bound_limit, verbose, seen,
                 simplified_coeffs, simplified_vars, sol_set, pending,
                 valid_solutions, tried, output, result>>

\* no deduplication: every pair is kept
KeepAll(coeff, seenSet) == TRUE

\* whether the pair at position k is kept
Keep(coeff, seenSet) == coeff \notin seenSet

\* one iteration of: for coeff, var_name in zip(coeffs, var_names)
DedupStep ==
  /\ pc = "dedup"
  /\ i <= Len(coeffs) /\ i <= Len(var_names)
  /\ IF Keep(coeffs[i], seen)
       THEN /\ seen' = seen \cup {coeffs[i]}
            /\ simplified_coeffs' = Append(simplified_coeffs, coeffs[i])
            /\ simplified_vars' = Append(simplified_vars, var_names[i])
       ELSE UNCHANGED <<seen, simplified_coeffs, simplified_vars>>
  /\ i' = i + 1
  /\ UNCHANGED <<coeffs, constant, var_names, bound_limit, verbose, pc,
                 sol_set, pending, valid_solutions, tried, output, result>>

\* the loop is over; the notice is printed when a pair was dropped
DedupNotice ==
  /\ pc = "dedup"
  /\ ~(i <= Len(coeffs) /\ i <= Len(var_names))
  /\ output' = IF Len(simplified_vars) < Len(var_names) /\ verbose
                 THEN Append(output, "[INFO] Simplified equation due to duplicate coefficients")
               ELSE output
  /\ pc' = "solve"
  /\ UNCHANGED <<coeffs, constant, var_names, bound_limit, verbose, i, seen,
                 simplified_coeffs, simplified_vars, sol_set, pending,
                 valid_solutions, tried, result>>

\* sol_set = diophantine(eq), and the report of it
Solve ==
  /\ pc = "solve"
  /\ sol_set' = SolveEquation(simplified_coeffs, simplified_vars, constant)
  /\ pending' = sol_set'
  /\ output' = IF ~verbose THEN output
               ELSE IF Cardinality(sol_set') = 1
                 THEN Append(output, "[INFO] Analytical solution is")
               ELSE Append(output, "[INFO] Analytical solutions are")
  /\ pc' = "enumerate"
  /\ UNCHANGED <<coeffs, constant, var_names, bound_limit, verbose, i, seen,
                 simplified_coeffs, simplified_vars, valid_solutions, tried, result>>

\* one iteration of: for sol in sol_set
Enumerate ==
  /\ pc = "enumerate"
  /\ \E sol \in pending :
       /\ pending' = pending \ {sol}
       /\ valid_solutions' = valid_solutions
            \cup Contribution(sol, bound_limit, constant, simplified_coeffs)
       /\ tried' = IF all_params(sol) = {} THEN tried
                   ELSE tried \cup ParamVectors(sol,
                          param_bound(bound_limit, constant, simplified_coeffs))
  /\ UNCHANGED <<coeffs, constant, var_names, bound_limit, verbose, pc, i, seen,
                 simplified_coeffs, simplified_vars, sol_set, output, result>>

\* result = sorted(valid_solutions); return result, simplified_vars
Return ==
  /\ pc = "enumerate"
  /\ pending = {}
  /\ result' = <<sorted(valid_solutions), simplified_vars>>
  /\ pc' = "done"
  /\ UNCHANGED <<coeffs, constant, var_names, bound_limit, verbose, i, seen,
                 simplified_coeffs, simplified_vars, sol_set, pending,
                 valid_solutions, tried, output>>

Next ==
  \/ Validate
  \/ ResolveNames
  \/ DedupStep
  \/ DedupNotice
  \/ Solve
  \/ Enumerate
  \/ Return

Spec == Init /\ [][Next]_vars

(***************************************************************************)
(* What the claims speak of, stated from the inputs alone.                 *)
(***************************************************************************)
Returned == pc = "done"
Solutions == result[1]
ReturnedNames == result[2]

HasZero == 0 \in Range(coeffs)

\* positions of the first occurrence of each distinct coefficient value
FirstPositions ==
  {j \in 1 .. Len(coeffs) : \A m \in 1 .. (j - 1) : coeffs[m] # coeffs[j]}

RECURSIVE Pick(_, _, _)
Pick(s, P, j) ==
  IF j > Len(s) THEN <<>>
  ELSE (IF j \in P THEN <<s[j]>> ELSE <<>>) \o Pick(s, P, j + 1)

DistinctCoeffs == Pick(coeffs, FirstPositions, 1)

PositionalNames == <<"x1", "x2", "x3", "x4", "x5">>

\* the call was made without var_names (the names a caller supplies in the
\* model are never of the form x1, x2, ...)
NamesDefaulted ==
  var_names = None \/ (var_names # <<>> /\ var_names[1] \in Range(PositionalNames))

MinAbsCoeff == CHOOSE m \in {Abs(a) : a \in Range(coeffs)} :
                 \A a \in Range(coeffs) : m <= Abs(a)

\* B = min(bound_limit, floor(constant^2 / min |a_i|))
SearchBound ==
  LET q == (constant * constant) \div MinAbsCoeff
  IN IF bound_limit <= q THEN bound_limit ELSE q

Evaluate(sol, v) ==
  [k \in 1 .. Len(sol) |->
     sol[k][1] + Dot([q \in 1 .. (Len(sol) - 1) |-> sol[k][q + 1]],
                     [q \in 1 .. (Len(sol) - 1) |->
                        IF (q + 1) \in DOMAIN v THEN v[q + 1] ELSE 0])]

Nonnegative(t) == \A k \in DOMAIN t : t[k] \in Nat

\* s comes strictly before t in lexicographic order (tuples of one length)
TupleBefore(s, t) ==
  \E j \in 1 .. Len(s) :
    /\ j <= Len(t)
    /\ \A m \in 1 .. (j - 1) : s[m] = t[m]
    /\ s[j] < t[j]

(***************************************************************************)
(* C1.  Every returned tuple, dotted with the deduplicated coefficient     *)
(* list, equals the constant.                                              *)
(***************************************************************************)
C1_DotProduct ==
  Returned =>
    \A k \in 1 .. Len(Solutions) : Dot(DistinctCoeffs, Solutions[k]) = constant

(***************************************************************************)
(* C2.  Every component of every returned tuple is an integer >= 0, for    *)
(* solutions without a free parameter and for substituted ones alike.      *)
(***************************************************************************)
C2_Nonnegative ==
  /\ \A t \in valid_solutions : Nonnegative(t)
  /\ Returned => \A k \in 1 .. Len(Solutions) : Nonnegative(Solutions[k])

\* a search that returned tuples and rejected a candidate with a negative
\* component
C2_Witness ==
  /\ Returned
  /\ Len(Solutions) >= 2
  /\ \E sol \in sol_set : \E v \in tried : ~Nonnegative(Evaluate(sol, v))

(***************************************************************************)
(* C3.  Completeness: with the default bound_limit every nonnegative       *)
(* integer solution of the deduplicated equation is returned.  Stated for  *)
(* the calls whose solution set is finite and whose tuples are in the      *)
(* order of the returned names: positive coefficients, default names.      *)
(***************************************************************************)
RECURSIVE NonnegSolutions(_, _)
NonnegSolutions(cs, c) ==
  IF cs = <<>> THEN (IF c = 0 THEN {<<>>} ELSE {})
  ELSE IF c < 0 THEN {}
  ELSE UNION {{<<x>> \o t : t \in NonnegSolutions(Tail(cs), c - cs[1] * x)} :
              x \in 0 .. (c \div cs[1])}

C4_StrictlyAscending ==
  Returned =>
    \A k \in 1 .. (Len(Solutions) - 1) : TupleBefore(Solutions[k], Solutions[k + 1])

C4_Witness ==
  /\ Returned
  /\ Len(Solutions) >= 3
  /\ \E k \in 1 .. (Len(Solutions) - 1) : Solutions[k][1] = Solutions[k + 1][1]

(***************************************************************************)
(* C5.  A zero coefficient anywhere makes the call fail before any         *)
(* deduplication, solving or output, and nothing is returned.              *)
(***************************************************************************)
C5_ZeroFailsEarly ==
  HasZero =>
    /\ pc \in {"validate", "failed"}
    /\ seen = {} /\ simplified_coeffs = <<>> /\ simplified_vars = <<>>
    /\ sol_set = {} /\ valid_solutions = {} /\ tried = {}
    /\ output = <<>>
    /\ result = None

\* the failure, for a zero that is not the first coefficient, in a verbose call
C5_Witness ==
  /\ pc = "failed"
  /\ coeffs[1] # 0 /\ HasZero
  /\ Cardinality(Range(coeffs)) < Len(coeffs)
  /\ verbose

(***************************************************************************)
(* C6.  Deduplication: the returned names are those at the first           *)
(* occurrence of each distinct coefficient value, in the original order,   *)
(* and every returned tuple has as many components as there are distinct   *)
(* coefficient values; [5, 5] = 10 with names [a, b] gives [(2,)], [a].    *)
(***************************************************************************)
C6_Dedup ==
  Returned =>
    /\ ReturnedNames = Pick(var_names, FirstPositions, 1)
    /\ \A k \in 1 .. Len(Solutions) : Len(Solutions[k]) = Cardinality(Range(coeffs))
    /\ (coeffs = <<5, 5>> /\ constant = 10 /\ var_names = <<"a", "b">>)
         => result = << << <<2>> >>, <<"a">> >>

C6_Witness ==
  /\ Returned
  /\ coeffs = <<5, 5>> /\ constant = 10 /\ var_names = <<"a", "b">>
  /\ Solutions # <<>>

(***************************************************************************)
(* C7.  Coefficients [1, 1], constant 0, no names.  As claimed: the        *)
(* result is [(0, 0)].  As the code has it: the second coefficient is      *)
(* dropped as a duplicate, and the result is [(0,)] with the names [x1].   *)
(***************************************************************************)
C7_Scenario == Returned /\ coeffs = <<1, 1>> /\ constant = 0 /\ NamesDefaulted

C7_Original == C7_Scenario => Solutions = << <<0, 0>> >>

C7_Amended == C7_Scenario => result = << << <<0>> >>, <<"x1">> >>

C7_Witness == C7_Scenario /\ bound_limit = DefaultBoundLimit

(***************************************************************************)
(* C8.  An equation without integer solutions, or without a nonnegative    *)
(* instantiation inside the search bound, is no error: the call returns    *)
(* the empty sequence and the normalized names; [2, 4] = 7 returns [].     *)
(***************************************************************************)
NoIntegerSolution == constant % SeqGcd(DistinctCoeffs) # 0

NoInstantiation ==
  \A sol \in sol_set :
    \A v \in [2 .. Len(sol) -> (-SearchBound) .. SearchBound] :
      ~Nonnegative(Evaluate(sol, v))

C8_EmptyIsNoError ==
  /\ ~HasZero => pc # "failed"
  /\ (Returned /\ (NoIntegerSolution \/ NoInstantiation))
       => result = <<<<>>, Pick(var_names, FirstPositions, 1)>>
  /\ (~HasZero /\ NoIntegerSolution /\ pc = "enumerate") => sol_set = {}

C8_Witness ==
  /\ Returned
  /\ coeffs = <<2, 4>> /\ constant = 7
  /\ NoIntegerSolution
  /\ Solutions = <<>>

(***************************************************************************)
(* C9.  A parametric solution with k >= 1 free parameters contributes      *)
(* exactly its evaluations at the vectors of [-B, B]^k that have only      *)
(* nonnegative components, B = min(bound_limit, floor(c^2 / min |a_i|)):   *)
(* every vector of the hypercube is tried, none outside it, B <=           *)
(* bound_limit.                                                            *)
(***************************************************************************)
C9_Hypercube ==
  (pc \in {"enumerate", "done"} /\ pending = {}) =>
    \A sol \in sol_set :
      Len(sol) >= 2 =>
        LET cube == [2 .. Len(sol) -> (-SearchBound) .. SearchBound]
        IN /\ tried = cube
           /\ valid_solutions =
                {Evaluate(sol, v) : v \in {w \in cube : Nonnegative(Evaluate(sol, w))}}
           /\ \A v \in tried : \A q \in DOMAIN v : Abs(v[q]) <= bound_limit

\* a search cut by bound_limit that still found tuples
C9_Witness ==
  /\ Returned
  /\ \E sol \in sol_set : Len(sol) >= 3
  /\ bound_limit < (constant * constant) \div MinAbsCoeff
  /\ Cardinality(tried) = (2 * bound_limit + 1) * (2 * bound_limit + 1)
  /\ Solutions # <<>>

(***************************************************************************)
(* C10.  Without var_names, the names x1 .. xn are given by position in    *)
(* the original coefficient list, before deduplication: the returned       *)
(* names are those of the first occurrences and are not renumbered;        *)
(* [3, 3, 5] yields [x1, x3].                                              *)
(***************************************************************************)
C10_PositionalNames ==
  /\ (pc \notin {"validate", "failed", "names"} /\ NamesDefaulted)
       => var_names = SubSeq(PositionalNames, 1, Len(coeffs))
  /\ (Returned /\ NamesDefaulted)
       => ReturnedNames = Pick(PositionalNames, FirstPositions, 1)
  /\ (Returned /\ NamesDefaulted /\ coeffs = <<3, 3, 5>>)
       => ReturnedNames = <<"x1", "x3">>

C10_Witness ==
  /\ Returned
  /\ NamesDefaulted
  /\ coeffs = <<3, 3, 5>>
  /\ ReturnedNames = <<"x1", "x3">>

====
